---- MODULE Spec2Model ----
(***************************************************************************)
(* A model of r2t2: the FTDC block decoder (src/ftdc/decode.rs), the       *)
(* container reader (src/ftdc.rs), the descriptor table (src/metric.rs)    *)
(* and the dataset store with its sampler (src/main.rs).                   *)
(*                                                                         *)
(* Machine integers are modelled at a reduced word width: a 64-bit word of *)
(* the program is a Bits-bit word here, so that overflow is reachable.     *)
(* Arithmetic that overflows is build dependent in Rust (a panic when      *)
(* overflow checks are compiled in, two's-complement wrapping otherwise);  *)
(* the variable overflow_checks fixes the build for a whole behaviour.     *)
(***************************************************************************)
EXTENDS Integers, Sequences, FiniteSets, TLC

\* ------------------------------------------------------------------ bounds

\* Width, in bits, of the modelled u64 / i64 / usize word.
Bits == 4
\* Largest delta_count (num_deltas) of a block header.
MaxDeltas == 2
\* Longest variable-length integer stream of a block.
MaxStreamLen == 3
\* Largest number of containers in an archive file.
MaxChunks == 2

\* -------------------------------------------------------------- arithmetic

WordMod == 2 ^ Bits
U64_MAX == WordMod - 1
I64_MAX == (2 ^ (Bits - 1)) - 1
I64_MIN == 0 - (2 ^ (Bits - 1))

Min(a, b) == IF a < b THEN a ELSE b

\* Rust's integer division and remainder truncate toward zero.
Quot(a, b) == IF a >= 0 THEN a \div b ELSE 0 - ((0 - a) \div b)
Rem(a, b) == a - b * Quot(a, b)

\* `x as i64` for a u64 x: the same bit pattern read as two's complement.
as_i64(u) == IF u > I64_MAX THEN u - WordMod ELSE u

\* The bit pattern of an out-of-range signed sum, read back as i64.
wrap_i64(x) == as_i64(x % WordMod)

\* `value += delta` on i64: faults under overflow checks, wraps without.
add_i64(value, delta, checks) ==
    LET sum == value + delta IN
    IF sum > I64_MAX \/ sum < I64_MIN
    THEN [fault |-> checks, value |-> wrap_i64(sum)]
    ELSE [fault |-> FALSE, value |-> sum]

\* `1 + k as usize` on a 64-bit target: faults or wraps to 0 at k = u64::MAX.
zero_run_len(k, checks) ==
    IF 1 + k > U64_MAX
    THEN [fault |-> checks, value |-> (1 + k) % WordMod]
    ELSE [fault |-> FALSE, value |-> 1 + k]

\* ------------------------------------------------------- BSON elements

\* A bson::Bson value is a record [t, v]: t the variant, v its payload.
Doc(fields) == [t |-> "Document", v |-> fields]
Fld(name, elem) == [k |-> name, e |-> elem]
Arr(elems) == [t |-> "Array", v |-> elems]
DateTime(millis) == [t |-> "DateTime", v |-> millis]
Tstamp(time, increment) == [t |-> "Timestamp", v |-> <<time, increment>>]
Int64(x) == [t |-> "Int64", v |-> x]
Int32(x) == [t |-> "Int32", v |-> x]
\* A double is carried as a count of halves, so that 5 stands for 2.5.
Double(halves) == [t |-> "Double", v |-> halves]
Boolean(b) == [t |-> "Boolean", v |-> b]
String(s) == [t |-> "String", v |-> s]
Null == [t |-> "Null", v |-> 0]

\* `f as i64` for an f64: truncation toward zero, saturating at the range.
f64_as_i64(halves) ==
    LET q == Quot(halves, 2) IN
    IF q > I64_MAX THEN I64_MAX ELSE IF q < I64_MIN THEN I64_MIN ELSE q

\* usize::to_string for an array index: its decimal digits.
digit(d) ==
    CASE d = 0 -> "0" [] d = 1 -> "1" [] d = 2 -> "2" [] d = 3 -> "3"
      [] d = 4 -> "4" [] d = 5 -> "5" [] d = 6 -> "6" [] d = 7 -> "7"
      [] d = 8 -> "8" [] OTHER -> "9"
RECURSIVE to_string(_)
to_string(idx) ==
    IF idx < 10 THEN digit(idx) ELSE to_string(idx \div 10) \o digit(idx % 10)

\* ------------------------------------------------------ MetricsDecoder

\* A MetricKey is the sequence of its segments; push appends one.
push(prefix, elem) == Append(prefix, elem)

\* MetricsDecoder::add_metric: a new column holding the seed, at the end.
add_metric(metrics, key, init_val) ==
    Append(metrics, [key |-> key, values |-> <<init_val>>])

RECURSIVE collect_element_metrics(_, _, _)
RECURSIVE collect_children(_, _, _, _)

\* The children of a document, as (key, element) pairs in document order.
doc_children(doc) == [i \in 1..Len(doc.v) |-> <<doc.v[i].k, doc.v[i].e>>]
\* The children of an array: enumerate() pairs each element with its index.
array_children(array) ==
    [i \in 1..Len(array.v) |-> <<to_string(i - 1), array.v[i]>>]
\* The children of an internal timestamp: t, then i, both Int64.
timestamp_children_i_first(value) ==
    <<(<<"i", Int64(value.v[2])>>), (<<"t", Int64(value.v[1])>>)>>
timestamp_children(value) ==
    <<(<<"t", Int64(value.v[1])>>), (<<"i", Int64(value.v[2])>>)>>

collect_element_metrics(metrics, elem, prefix) ==
    CASE elem.t = "Document" ->
            collect_children(metrics, prefix, doc_children(elem), 1)
      [] elem.t = "Array" ->
            collect_children(metrics, prefix, array_children(elem), 1)
      [] elem.t = "DateTime" -> add_metric(metrics, prefix, elem.v)
      [] elem.t = "Timestamp" ->
            collect_children(metrics, prefix, timestamp_children(elem), 1)
      [] elem.t = "Int64" -> add_metric(metrics, prefix, elem.v)
      [] elem.t = "Int32" -> add_metric(metrics, prefix, elem.v)
      [] elem.t = "Double" -> add_metric(metrics, prefix, f64_as_i64(elem.v))
      [] elem.t = "Boolean" ->
            add_metric(metrics, prefix, IF elem.v THEN 1 ELSE 0)
      [] OTHER -> metrics

\* The for loop of collect_children from its i-th child on: the prefix is
\* extended by the child's key for the child and truncated back after it.
collect_children(metrics, prefix, children, i) ==
    IF i > Len(children) THEN metrics
    ELSE collect_children(
            collect_element_metrics(metrics, children[i][2],
                                    push(prefix, children[i][1])),
            prefix, children, i + 1)

\* MetricsDecoder::collect_metrics: the walk from the root, empty prefix.
collect_metrics(doc) == collect_element_metrics(<<>>, doc, <<>>)

\* The state of decode_deltas: the columns, the zero-run counter shared by
\* all columns, and the position of the next unread integer of the stream.
\* status is "ok" while running, "io" after a failed read (the stream ended
\* inside the tail), "panic" after a fault, whose cause is then named.
decoder_state(metrics) ==
    [status |-> "ok", cause |-> "", metrics |-> metrics, num_zeroes |-> 0,
     pos |-> 1]

\* The while loop for column c with running value `value` and `deltas_left`
\* samples still to produce.
RECURSIVE decode_column(_, _, _, _, _, _)
decode_column(st, c, value, deltas_left, stream, checks) ==
    IF deltas_left = 0 THEN st
    ELSE IF st.num_zeroes > 0 THEN
        LET zeroes_to_use == Min(deltas_left, st.num_zeroes) IN
        decode_column(
            [st EXCEPT !.metrics[c].values =
                            @ \o [i \in 1..zeroes_to_use |-> value],
                       !.num_zeroes = @ - zeroes_to_use],
            c, value, deltas_left - zeroes_to_use, stream, checks)
    ELSE IF st.pos > Len(stream) THEN [st EXCEPT !.status = "io"]
    ELSE LET delta == as_i64(stream[st.pos]) IN
        IF delta # 0 THEN
            LET sum == add_i64(value, delta, checks) IN
            IF sum.fault
            THEN [st EXCEPT !.status = "panic", !.cause = "add overflow",
                            !.pos = @ + 1]
            ELSE decode_column(
                    [st EXCEPT !.metrics[c].values = Append(@, sum.value),
                               !.pos = @ + 1],
                    c, sum.value, deltas_left - 1, stream, checks)
        ELSE IF st.pos + 1 > Len(stream)
        THEN [st EXCEPT !.status = "io", !.pos = @ + 1]
        ELSE LET run == zero_run_len(stream[st.pos + 1], checks) IN
            IF run.fault
            THEN [st EXCEPT !.status = "panic", !.cause = "zero run overflow",
                            !.pos = @ + 2]
            ELSE decode_column(
                    [st EXCEPT !.num_zeroes = run.value, !.pos = @ + 2],
                    c, value, deltas_left, stream, checks)

\* The for loop over the columns, in emission order, from column c on.
RECURSIVE decode_columns(_, _, _, _, _)
decode_columns(st, c, num_deltas, stream, checks) ==
    IF st.status # "ok" \/ c > Len(st.metrics) THEN st
    ELSE decode_columns(
            decode_column(st, c, st.metrics[c].values[1], num_deltas,
                          stream, checks),
            c + 1, num_deltas, stream, checks)

\* MetricsDecoder::decode_deltas on the columns the walk produced.
decode_deltas_one_short(metrics, num_deltas, stream, checks) ==
    decode_columns(decoder_state(metrics), 1,
                   IF num_deltas > 0 THEN num_deltas - 1 ELSE 0, stream, checks)
decode_deltas(metrics, num_deltas, stream, checks) ==
    decode_columns(decoder_state(metrics), 1, num_deltas, stream, checks)

\* unix_millis_to_timestamp: seconds and nanoseconds of the instant. A
\* negative remainder cast to u32 and multiplied by NANOS_PER_MILLISECOND
\* overflows u32: a fault under overflow checks, and without them a wrapped
\* nanosecond count of at least 2^32 - 999 * 10^6, which from_timestamp
\* rejects, so that unwrap() faults. An instant is carried as its
\* milliseconds since the epoch.
unix_millis_to_timestamp(millis) ==
    LET secs == Quot(millis, 1000)
        rem == Rem(millis, 1000)
    IN  IF rem < 0 THEN [fault |-> TRUE, instant |-> 0]
        ELSE [fault |-> FALSE, instant |-> secs * 1000 + rem]

\* The key the timestamp column is looked up by.
StartKey == <<"start">>

\* collect() into a HashMap: one entry per key, a later column replacing an
\* earlier one of the same key.
to_hash_map(metrics) ==
    LET keys == {metrics[i].key : i \in 1..Len(metrics)}
        last(k) == CHOOSE i \in 1..Len(metrics) :
                      /\ metrics[i].key = k
                      /\ \A j \in (i + 1)..Len(metrics) : metrics[j].key # k
    IN  [k \in keys |-> metrics[last(k)].values]

\* MetricsDecoder::finish: the MetricsChunk, or a fault when there is no
\* column "start" or one of its entries is no valid instant.
finish(metrics) ==
    LET map == to_hash_map(metrics) IN
    IF StartKey \notin DOMAIN map
    THEN [fault |-> TRUE, cause |-> "no start", timestamps |-> <<>>,
          metrics |-> map]
    ELSE LET conv == [i \in 1..Len(map[StartKey]) |->
                          unix_millis_to_timestamp(map[StartKey][i])]
         IN  IF \E i \in 1..Len(conv) : conv[i].fault
             THEN [fault |-> TRUE, cause |-> "invalid instant",
                   timestamps |-> <<>>, metrics |-> map]
             ELSE [fault |-> FALSE, cause |-> "",
                   timestamps |-> [i \in 1..Len(conv) |-> conv[i].instant],
                   metrics |-> map]

\* The inflated payload of a data container: the reference document, the
\* two header fields and the stream of variable-length integers.
Block(ref, num_keys, num_deltas, stream) ==
    [ref |-> ref, num_keys |-> num_keys, num_deltas |-> num_deltas,
     stream |-> stream]

\* extract_data from the point where the payload has been inflated and
\* parsed: collect_metrics, decode_deltas, finish. The outcome keeps the
\* decoder's last state beside the chunk. status is "ok" (Chunk::Data),
\* "err" (an Error is returned) or "panic".
extract_data(blk, checks) ==
    LET dec == decode_deltas(collect_metrics(blk.ref), blk.num_deltas,
                             blk.stream, checks)
        fin == finish(dec.metrics)
        base == [status |-> "ok", error |-> "", cause |-> "",
                 timestamps |-> <<>>, metrics |-> <<>>]
    IN  IF dec.status = "io" THEN [base EXCEPT !.status = "err", !.error = "IO"]
        ELSE IF dec.status = "panic"
        THEN [base EXCEPT !.status = "panic", !.cause = dec.cause]
        ELSE IF fin.fault
        THEN [base EXCEPT !.status = "panic", !.cause = fin.cause]
        ELSE [base EXCEPT !.timestamps = fin.timestamps,
                          !.metrics = fin.metrics]

\* ------------------------------------------------------------------ inputs

\* All sequences over S of length at most n.
RECURSIVE SeqsUpTo(_, _)
SeqsUpTo(S, n) ==
    IF n = 0 THEN {<<>>}
    ELSE LET shorter == SeqsUpTo(S, n - 1) IN
         shorter \cup {Append(q, x) : q \in shorter, x \in S}

\* The integers a stream is made of: the zero marker, a small positive
\* delta or run length, a longer run length, and the all-ones word, which
\* is the delta -1 and the largest run length.
StreamValues == {0, 1, 3, U64_MAX}
Streams == SeqsUpTo(StreamValues, MaxStreamLen)

\* Elements of reference documents: every leaf type the walk tells apart,
\* and arrays, documents and internal timestamps nested in each other.
Leaves ==
    {Int64(1), Int32(2), Double(5), Boolean(TRUE), String("s"), Null,
     DateTime(2)}
Nested ==
    {Tstamp(1, 2),
     Arr(<<Int64(1), String("s"), Int32(2)>>),
     Arr(<<Tstamp(2, 1)>>),
     Arr(<<>>),
     Doc(<<Fld("x", Boolean(FALSE)), Fld("y", Int64(I64_MAX))>>),
     Doc(<<Fld("x", Arr(<<Int32(0), Doc(<<Fld("z", Double(3))>>)>>)),
           Fld("y", Null)>>)}
Elements == Leaves \cup Nested

StartSeeds == {0, 1, I64_MIN}
Start(s) == Fld("start", DateTime(s))
RefDocs ==
    {Doc(<<Start(s)>>) : s \in StartSeeds}
    \cup {Doc(<<Start(s), Fld("a", e)>>) : s \in {0, 1}, e \in Elements}
    \cup {Doc(<<Fld("a", e), Start(0)>>) : e \in Elements}
    \cup {Doc(<<Fld("a", e), Start(1), Fld("b", Int64(0))>>) : e \in Nested}
    \cup {Doc(<<Fld("a", e)>>) : e \in {Int64(1), Arr(<<>>)}}
    \cup {Doc(<<Fld("start", Doc(<<Fld("a", Int64(1))>>))>>), Doc(<<>>)}

\* The blocks the decoder is run on. The metric count of the header is a
\* field of the input like the others: nothing ties it to the document.
DecodeBlocks ==
    {Block(r, n, d, st) :
        r \in RefDocs, n \in {1, 2}, d \in 0..MaxDeltas, st \in Streams}

\* ------------------------------------------------------------------- state

VARIABLES
    overflow_checks, \* the build: TRUE when integer overflow faults
    descriptors,     \* DataSet::descriptors
    metadata,        \* DataSet::metadata
    timestamps,      \* DataSet::timestamps
    raw_data,        \* DataSet::raw_data
    update,          \* what the last handled message reported
    opened,          \* the archive the store was last cleared for
    block,           \* the payload given to the block decoder
    decoder,         \* the MetricsDecoder working on `block`
    replay,          \* a second DataSet, for runs that are repeated
    rx,              \* the messages sent on the channel and not yet received
    state            \* MainWindow::state, with the two zoom buttons

vars ==
    <<overflow_checks, descriptors, metadata, timestamps, raw_data, update,
      opened, block, decoder, replay, rx, state>>

dataset_vars == <<descriptors, metadata, timestamps, raw_data, update, opened>>

\* What a handler reports to the main window: an Update, an alert, or a
\* panic, after which no message is handled any more.
Report(kind) ==
    [kind |-> kind, error |-> "", cause |-> "", start |-> 0, end |-> 0,
     transients |-> <<>>, sections |-> <<>>, request |-> <<>>,
     samples |-> <<>>]

\* Descriptors::new
NewDescriptors == [by_id |-> <<>>, sections |-> <<>>, transients |-> <<>>]

\* DataSet::new, before any message is handled.
NewDataSet ==
    /\ descriptors = NewDescriptors
    /\ metadata = <<>>
    /\ timestamps = <<>>
    /\ raw_data = <<>>
    /\ update = Report("none")
    /\ opened = [exists |-> TRUE, chunks |-> <<>>, rest |-> 0]

\* MainWindow::new: State::default(), both zoom buttons deactivated, and
\* nothing sent on the channel yet. None is the empty tuple.
NewMainWindow ==
    /\ rx = <<>>
    /\ state = [sections |-> <<>>, sections_dirty |-> TRUE,
                transients |-> <<>>, data_time_range |-> <<>>,
                zoom_time_range |-> <<>>, set_zoom_button |-> FALSE,
                reset_zoom_button |-> FALSE]

\* MetricsDecoder::new: no column yet. pc is the next step of extract_data.
NewDecoder ==
    [pc |-> "collect", status |-> "ok", cause |-> "", metrics |-> <<>>,
     num_zeroes |-> 0, pos |-> 1, timestamps |-> <<>>, chunk |-> <<>>]

\* -------------------------------------------------- the block decoder

InitDecode ==
    /\ overflow_checks \in BOOLEAN
    /\ NewDataSet
    /\ block \in DecodeBlocks
    /\ decoder = NewDecoder
    /\ replay = <<>>
    /\ NewMainWindow

\* decoder.collect_metrics(doc)
CollectMetrics ==
    /\ decoder.pc = "collect"
    /\ decoder' = [decoder EXCEPT !.pc = "decode",
                                  !.metrics = collect_metrics(block.ref)]
    /\ UNCHANGED <<overflow_checks, rx, state, dataset_vars, block, replay>>

\* decoder.decode_deltas(&mut cursor)?
DecodeDeltas ==
    /\ decoder.pc = "decode"
    /\ LET st == decode_deltas(decoder.metrics, block.num_deltas,
                               block.stream, overflow_checks)
       IN  decoder' = [decoder EXCEPT
                !.pc = IF st.status = "ok" THEN "finish" ELSE "done",
                !.status = IF st.status = "io" THEN "err" ELSE st.status,
                !.cause = st.cause, !.metrics = st.metrics,
                !.num_zeroes = st.num_zeroes, !.pos = st.pos]
    /\ UNCHANGED <<overflow_checks, rx, state, dataset_vars, block, replay>>

\* Ok(Chunk::Data(decoder.finish()))
Finish ==
    /\ decoder.pc = "finish"
    /\ LET fin == finish(decoder.metrics)
       IN  decoder' = [decoder EXCEPT
                !.pc = "done",
                !.status = IF fin.fault THEN "panic" ELSE "ok",
                !.cause = fin.cause,
                !.timestamps = fin.timestamps,
                !.chunk = fin.metrics]
    /\ UNCHANGED <<overflow_checks, rx, state, dataset_vars, block, replay>>

NextDecode == CollectMetrics \/ DecodeDeltas \/ Finish

SpecDecode == InitDecode /\ [][NextDecode]_vars

\* --------------------------------------------- claims about the decoder

\* extract_data has returned Ok(Chunk::Data(..)) for `block`.
Decoded == decoder.pc = "done" /\ decoder.status = "ok"
\* decode_deltas has returned Ok(()) for `block`.
DeltasDecoded == decoder.pc = "finish" \/ Decoded

RECURSIVE SumLen(_, _)
SumLen(cols, i) ==
    IF i > Len(cols) THEN 0 ELSE Len(cols[i].values) + SumLen(cols, i + 1)

\* C4: for every block that decodes successfully, the number of samples
\* emitted over all columns is metric_count * (delta_count + 1) with the
\* metric_count of the header, that is, the walk of the reference document
\* produces as many columns as the header says.
C4_SamplesMatchHeader ==
    Decoded =>
        /\ SumLen(decoder.metrics, 1) = block.num_keys * (block.num_deltas + 1)
        /\ Len(decoder.metrics) = block.num_keys

\* C5: whenever decode_deltas returns success, the zero-run counter is 0
\* and the stream has been read to exactly its last integer.
C5_StreamExhausted ==
    DeltasDecoded =>
        /\ decoder.num_zeroes = 0
        /\ decoder.pos = Len(block.stream) + 1

\* The stream expanded into its flat list of deltas: a pair (0, k) stands
\* for k + 1 zero deltas, every other integer for one delta. A zero marker
\* that ends the stream stands for nothing.
RECURSIVE FlatDeltas(_, _)
FlatDeltas(stream, i) ==
    IF i > Len(stream) THEN <<>>
    ELSE IF stream[i] # 0
    THEN <<as_i64(stream[i])>> \o FlatDeltas(stream, i + 1)
    ELSE IF i = Len(stream) THEN <<>>
    ELSE [j \in 1..(stream[i + 1] + 1) |-> 0] \o FlatDeltas(stream, i + 2)

\* seed, seed + d1, seed + d1 + d2, ... over deltas[from .. from + n - 1],
\* each sum taken modulo the word and read as a signed integer.
RECURSIVE RunningSum(_, _, _, _)
RunningSum(seed, deltas, from, n) ==
    IF n = 0 THEN <<seed>>
    ELSE <<seed>> \o RunningSum(wrap_i64(seed + deltas[from]), deltas,
                               from + 1, n - 1)

\* The columns a list of deltas gives: column c takes the c-th group of
\* num_deltas deltas.
ColumnsOf(cols, deltas, num_deltas) ==
    /\ Len(deltas) >= Len(cols) * num_deltas
    /\ \A c \in 1..Len(cols) :
          cols[c].values =
              RunningSum(cols[c].values[1], deltas,
                         (c - 1) * num_deltas + 1, num_deltas)

\* C6: the decoded columns equal the reference decoding of the flat list
\* of deltas, a zero run carrying over from one column to the next.
C6_ReferenceDecoding ==
    DeltasDecoded =>
        ColumnsOf(decoder.metrics, FlatDeltas(block.stream, 1),
                  block.num_deltas)

\* C7: for every value v and every non-zero delta d of the stream the next
\* sample is (v + d) modulo the word, read as a signed integer; the decoder
\* does not fault, reject or saturate when the signed sum overflows.
C7_WrappingAdd ==
    decoder.pc # "collect" =>
        /\ decoder.cause # "add overflow"
        /\ \A v \in I64_MIN..I64_MAX, d \in 1..U64_MAX :
              add_i64(v, as_i64(d), overflow_checks) =
                  [fault |-> FALSE, value |-> wrap_i64(v + d)]

\* The positions of the metric leaves of an element: a position is the
\* sequence of child indices that leads from the element to the leaf. An
\* internal timestamp has two leaves, at child 1 and child 2.
RECURSIVE MetricPaths(_)
MetricPaths(e) ==
    CASE e.t = "Document" ->
            UNION {{<<i>> \o q : q \in MetricPaths(e.v[i].e)} :
                        i \in 1..Len(e.v)}
      [] e.t = "Array" ->
            UNION {{<<i>> \o q : q \in MetricPaths(e.v[i])} :
                        i \in 1..Len(e.v)}
      [] e.t = "Timestamp" -> {<<1>>, <<2>>}
      [] e.t \in {"DateTime", "Int64", "Int32", "Double", "Boolean"} -> {<<>>}
      [] OTHER -> {}

\* Depth-first order of positions: the lexicographic order.
RECURSIVE Before(_, _)
Before(p, q) ==
    /\ q # <<>>
    /\ \/ p = <<>>
       \/ p[1] < q[1]
       \/ p[1] = q[1] /\ Before(Tail(p), Tail(q))

\* The key path of the leaf at position p of element e.
RECURSIVE KeyAt(_, _)
KeyAt(e, p) ==
    IF p = <<>> THEN <<>>
    ELSE CASE e.t = "Document" ->
                <<e.v[p[1]].k>> \o KeyAt(e.v[p[1]].e, Tail(p))
           [] e.t = "Array" ->
                <<to_string(p[1] - 1)>> \o KeyAt(e.v[p[1]], Tail(p))
           [] OTHER -> IF p[1] = 1 THEN <<"t">> ELSE <<"i">>

\* The columns of the walk are the metric leaves in depth-first order.
DepthFirst(ref, cols) ==
    LET paths == MetricPaths(ref)
        rank(p) == 1 + Cardinality({q \in paths : Before(q, p)})
    IN  /\ Len(cols) = Cardinality(paths)
        /\ \A p \in paths : cols[rank(p)].key = KeyAt(ref, p)

\* The deltas as the decoder takes them from the stream, in stream order.
RECURSIVE StreamDeltas(_, _)
StreamDeltas(stream, i) ==
    IF i > Len(stream) THEN <<>>
    ELSE IF stream[i] # 0
    THEN <<as_i64(stream[i])>> \o StreamDeltas(stream, i + 1)
    ELSE IF i = Len(stream) THEN <<>>
    ELSE [j \in 1..zero_run_len(stream[i + 1], FALSE).value |-> 0]
            \o StreamDeltas(stream, i + 2)

\* C8: the walk of a reference document emits its columns in depth-first
\* order (fields in document order, array elements by index under their
\* decimal index, an internal timestamp as t then i, one column for each
\* date-time, integer, double and boolean leaf and none for any other),
\* and the k-th group of delta_count deltas of the stream goes to the k-th
\* column emitted.
C8_EmissionOrder ==
    /\ decoder.pc # "collect" => DepthFirst(block.ref, decoder.metrics)
    /\ DeltasDecoded =>
          ColumnsOf(decoder.metrics, StreamDeltas(block.stream, 1),
                    block.num_deltas)

\* A block of three columns, two of them the halves of an internal
\* timestamp, has been decoded from a stream of three different deltas.
C8_Witness ==
    /\ Decoded
    /\ block.num_deltas = 1
    /\ block.stream = <<1, 3, U64_MAX>>
    /\ Len(decoder.metrics) = 3
    /\ decoder.metrics[1].key = <<"start">>
    /\ decoder.metrics[2] = [key |-> <<"a", "t">>, values |-> <<1, 4>>]
    /\ decoder.metrics[3] = [key |-> <<"a", "i">>, values |-> <<2, 1>>]

\* ------------------------------------------------------ descriptor table

\* The display name of a default descriptor: the segments, space separated.
RECURSIVE join_segments(_, _)
join_segments(key, i) ==
    IF i > Len(key) THEN ""
    ELSE IF i = 1 THEN key[1] \o join_segments(key, 2)
    ELSE " " \o key[i] \o join_segments(key, i + 1)

\* Descriptor::default_for_key; the id is a placeholder until registration.
default_for_key(key) ==
    [id |-> U64_MAX, key |-> key, name |-> join_segments(key, 1), scale |-> 1]

\* A by_key that is never filled: no key is ever found.
contains_key_never(descs, key) == FALSE

\* Descriptors::contains_key: by_key holds the keys of the descriptors.
contains_key(descs, key) ==
    \E i \in 1..Len(descs.by_id) : descs.by_id[i].key = key

\* Descriptors::add_descriptor: the descriptor as registered, its id the
\* number of descriptors registered before it.
add_descriptor(descs, desc) == [desc EXCEPT !.id = Len(descs.by_id)]

\* Descriptors::add: register the descriptor and list it as a transient.
add(descs, desc) ==
    [descs EXCEPT !.by_id = Append(@, add_descriptor(descs, desc)),
                  !.transients = Append(@, add_descriptor(descs, desc))]

\* ------------------------------------------------------------ the store

\* A stored sample is an f64: a number or NaN.
NaN == [nan |-> TRUE, v |-> 0]
as_f64(x) == [nan |-> FALSE, v |-> x]
nans(n) == [i \in 1..n |-> NaN]
floats(values) == [i \in 1..Len(values) |-> as_f64(values[i])]

\* All orders in which the elements of a set can be iterated.
RECURSIVE Orders(_)
Orders(S) ==
    IF S = {} THEN {<<>>}
    ELSE UNION {{<<x>> \o q : q \in Orders(S \ {x})} : x \in S}

\* The first loop of the Chunk::Data arm: every column of the store takes
\* the chunk's values of its key, or one NaN for each of its timestamps.
extend_columns_no_nans(raw, chunk) ==
    [key \in DOMAIN raw |->
        IF key \in DOMAIN chunk.metrics
        THEN raw[key] \o floats(chunk.metrics[key])
        ELSE raw[key]]
extend_columns(raw, chunk) ==
    [key \in DOMAIN raw |->
        IF key \in DOMAIN chunk.metrics
        THEN raw[key] \o floats(chunk.metrics[key])
        ELSE raw[key] \o nans(Len(chunk.timestamps))]

\* One turn of the second loop, for a key the first loop left in the chunk:
\* a default descriptor unless the key has one, and a column that is padded
\* with one NaN for each timestamp of the store before it takes the values.
add_column_unpadded(ds, key, chunk_values) ==
    [ds EXCEPT
        !.descriptors = IF contains_key(@, key) THEN @
                        ELSE add(@, default_for_key(key)),
        !.raw_data = [k \in DOMAIN @ \cup {key} |->
                          IF k = key THEN floats(chunk_values) ELSE @[k]]]
add_column(ds, key, chunk_values) ==
    LET column == IF key \in DOMAIN ds.raw_data THEN ds.raw_data[key]
                  ELSE <<>>
        values == column \o nans(Len(ds.timestamps)) \o floats(chunk_values)
    IN  [ds EXCEPT
            !.descriptors = IF contains_key(@, key) THEN @
                            ELSE add(@, default_for_key(key)),
            !.raw_data = [k \in DOMAIN @ \cup {key} |->
                              IF k = key THEN values ELSE @[k]]]

RECURSIVE add_columns(_, _, _, _)
add_columns(ds, chunk, order, i) ==
    IF i > Len(order) THEN ds
    ELSE add_columns(add_column(ds, order[i], chunk.metrics[order[i]]),
                     chunk, order, i + 1)

\* The Chunk::Data arm of open_ftdc_file. `order` is the order in which the
\* HashMap of the chunk yields the keys that the store has no column for.
append_chunk(ds, chunk, order) ==
    LET extended == [ds EXCEPT !.raw_data = extend_columns(@, chunk)]
        added == add_columns(extended, chunk, order, 1)
    IN  [added EXCEPT !.timestamps = @ \o chunk.timestamps]

\* The keys of a chunk that are left for the second loop.
remaining_keys(ds, chunk) == DOMAIN chunk.metrics \ DOMAIN ds.raw_data

\* The Chunk::Metadata arm: the document is kept if none is held yet.
keep_metadata(ds, doc) ==
    [ds EXCEPT !.metadata = IF @ = <<>> THEN doc ELSE @]

\* ------------------------------------------------------- container reader

\* A container of an archive, as read_chunk tells them apart: a metadata
\* document, a data block, or a document of another type.
MetadataContainer(doc) == [type |-> 0, doc |-> doc, data |-> <<>>]
DataContainer(blk) == [type |-> 1, doc |-> <<>>, data |-> blk]
OtherContainer(type) == [type |-> type, doc |-> <<>>, data |-> <<>>]

\* A container that is whole in the file but damaged: the error that
\* read_chunk returns for it with `?`.
\*   "BSON"                  the container is no document (ftdc.rs:40) or
\*                           the inflated payload starts with none (:89)
\*   "InvalidDocumentFormat" no int32 `type` (:41), no `doc` (:65-70) or no
\*                           generic binary `data` (:75-82)
\*   "IO"                    the payload does not inflate (:85-87) or ends
\*                           before the two header fields (:93-97)
\*   "InvalidNumericFormat"  an integer of the stream is wider than 64 bits
\*                           (:101)
DamagedContainer(error) == [type |-> -1, doc |-> <<>>, data |-> error]

Damages == {"BSON", "InvalidDocumentFormat", "IO", "InvalidNumericFormat"}

\* read_chunk on a container that is whole in the file.
read_chunk(container, checks) ==
    CASE container.type = -1 ->
            [status |-> "err", error |-> container.data, cause |-> "",
             kind |-> "", doc |-> <<>>, timestamps |-> <<>>,
             metrics |-> <<>>]
      [] container.type = 0 ->
            [status |-> "ok", error |-> "", cause |-> "", kind |-> "Metadata",
             doc |-> container.doc, timestamps |-> <<>>, metrics |-> <<>>]
      [] container.type = 1 ->
            LET r == extract_data(container.data, checks) IN
            [status |-> r.status, error |-> r.error, cause |-> r.cause,
             kind |-> "Data", doc |-> <<>>, timestamps |-> r.timestamps,
             metrics |-> r.metrics]
      [] OTHER ->
            [status |-> "err", error |-> "UnknownChunkType", cause |-> "",
             kind |-> "", doc |-> <<>>, timestamps |-> <<>>,
             metrics |-> <<>>]

\* ------------------------------------------------------ archives to open

MetricA == Fld("a", Int64(1))
MetricB == Fld("b", Int64(2))

\* Data blocks whose key sets differ and whose timestamps rise, repeat and
\* fall; a block whose stream ends early and one whose column overflows.
DataBlocks ==
    {Block(Doc(<<Start(1)>>), 1, 0, <<>>),
     Block(Doc(<<Start(0), MetricA>>), 2, 1, <<1, 1>>),
     Block(Doc(<<Start(2), MetricB>>), 2, 1, <<1, U64_MAX>>),
     Block(Doc(<<MetricB, Start(1), Fld("a", Boolean(TRUE))>>), 3, 1, <<0, 2>>),
     Block(Doc(<<Start(3), MetricA>>), 2, 2, <<U64_MAX, U64_MAX, 0, 1>>),
     Block(Doc(<<Start(0), MetricA>>), 2, 1, <<1>>),
     Block(Doc(<<Start(0), Fld("a", Int64(I64_MAX))>>), 2, 1, <<1, 1>>)}

\* Blocks that decode, with timestamps that rise, repeat and fall.
SampleBlocks ==
    {Block(Doc(<<Start(0), MetricA>>), 2, 1, <<1, 1>>),
     Block(Doc(<<MetricB, Start(1), Fld("a", Boolean(TRUE))>>), 3, 1, <<0, 2>>),
     Block(Doc(<<Start(3), MetricA>>), 2, 1, <<U64_MAX, 1>>)}

\* Three blocks of one sample each, the middle one with another key: the
\* column of that key is NaN, a value, NaN.
GapBlocks ==
    <<Block(Doc(<<Start(0), MetricB>>), 2, 0, <<>>),
      Block(Doc(<<Start(1), MetricA>>), 2, 0, <<>>),
      Block(Doc(<<Start(2), MetricB>>), 2, 0, <<>>)>>

\* A block with the paths sys.cpu.user, sys.cpu.idle and sys.net.rx.
SysBlock ==
    Block(Doc(<<Start(0),
                Fld("sys", Doc(<<Fld("cpu", Doc(<<Fld("user", Int64(1)),
                                                  Fld("idle", Int64(2))>>)),
                                 Fld("net", Doc(<<Fld("rx", Int64(3))>>))>>))>>),
          4, 0, <<>>)

MetadataDocs == {<<>>, <<Fld("hostname", String("x"))>>}

Containers ==
    {DataContainer(b) : b \in DataBlocks}
    \cup {MetadataContainer(d) : d \in MetadataDocs}
    \cup {OtherContainer(2)}

\* What read_chunk returns for each container, computed once.
chunk_of ==
    [c \in Containers \cup {DataContainer(b) : b \in SampleBlocks}
            \cup {DataContainer(GapBlocks[i]) : i \in DOMAIN GapBlocks}
            \cup {DamagedContainer(e) : e \in Damages}
            \cup {DataContainer(SysBlock)} |->
        [checks \in BOOLEAN |-> read_chunk(c, checks)]]

\* The width of the length prefix of a container.
PrefixLen == 4

\* read_chunk_len with `avail` bytes left in the file: a read of the u32
\* that ends early is Error::EOF.
read_chunk_len_eof_is_io(avail) == IF avail < PrefixLen THEN "IO" ELSE "Ok"
read_chunk_len(avail) == IF avail < PrefixLen THEN "EOF" ELSE "Ok"

\* read_chunk where the file ends: `rest` bytes of a container are left,
\* fewer than its length prefix announces. With the prefix read, read_exact
\* of the body fails with Error::IO.
read_cut_chunk(rest) ==
    IF read_chunk_len(rest) = "Ok" THEN "IO" ELSE read_chunk_len(rest)

\* The loop of open_ftdc_file from the i-th container of the file on: the
\* set of its outcomes, one for each iteration order of the HashMaps. For
\* Error::EOF the loop returns Ok(()).
RECURSIVE read_chunks(_, _, _, _, _)
read_chunks(ds, chunks, rest, i, checks) ==
    IF i > Len(chunks)
    THEN LET e == read_cut_chunk(rest) IN
         {[status |-> IF e = "EOF" THEN "ok" ELSE "err",
           error |-> IF e = "EOF" THEN "" ELSE e, cause |-> "", ds |-> ds]}
    ELSE LET r == chunk_of[chunks[i]][checks] IN
        IF r.status # "ok"
        THEN {[status |-> r.status, error |-> r.error, cause |-> r.cause,
               ds |-> ds]}
        ELSE IF r.kind = "Metadata"
        THEN read_chunks(keep_metadata(ds, r.doc), chunks, rest, i + 1,
                         checks)
        ELSE UNION {read_chunks(append_chunk(ds, r, order), chunks, rest,
                                i + 1, checks) :
                        order \in Orders(remaining_keys(ds, r))}

\* An archive file: whether it can be opened, its whole containers, and
\* the number of bytes of a cut container after them (0: the file ends at a
\* container boundary).
Archive(chunks) == [exists |-> TRUE, chunks |-> chunks, rest |-> 0]
CutArchive(chunks, rest) == [exists |-> TRUE, chunks |-> chunks, rest |-> rest]
NoFile == [exists |-> FALSE, chunks |-> <<>>, rest |-> 0]

\* open_ftdc_file without the three calls of clear().
open_ftdc_file_no_clear(ds, file, checks) ==
    IF ~file.exists
    THEN {[status |-> "err", error |-> "IO", cause |-> "", ds |-> ds]}
    ELSE read_chunks(ds, file.chunks, file.rest, 1, checks)

\* open_ftdc_file that clears the descriptor table with the rest.
open_ftdc_file_clears_descriptors(ds, file, checks) ==
    IF ~file.exists
    THEN {[status |-> "err", error |-> "IO", cause |-> "", ds |-> ds]}
    ELSE read_chunks([ds EXCEPT !.descriptors = NewDescriptors,
                                !.metadata = <<>>, !.timestamps = <<>>,
                                !.raw_data = <<>>],
                     file.chunks, file.rest, 1, checks)

\* open_ftdc_file without self.metadata.clear().
open_ftdc_file_keeps_metadata(ds, file, checks) ==
    IF ~file.exists
    THEN {[status |-> "err", error |-> "IO", cause |-> "", ds |-> ds]}
    ELSE read_chunks([ds EXCEPT !.timestamps = <<>>, !.raw_data = <<>>],
                     file.chunks, file.rest, 1, checks)

\* DataSet::open_ftdc_file: the set of its outcomes. A file that cannot be
\* opened is an error before anything is cleared.
open_ftdc_file(ds, file, checks) ==
    IF ~file.exists
    THEN {[status |-> "err", error |-> "IO", cause |-> "", ds |-> ds]}
    ELSE read_chunks([ds EXCEPT !.metadata = <<>>, !.timestamps = <<>>,
                                !.raw_data = <<>>],
                     file.chunks, file.rest, 1, checks)

\* An archive with two metadata containers, the first with an empty
\* document, before a data block.
TwoMetadataArchive ==
    Archive(<<MetadataContainer(<<>>),
              MetadataContainer(<<Fld("hostname", String("x"))>>),
              DataContainer(Block(Doc(<<Start(0), MetricA>>), 2, 1,
                                  <<1, 1>>))>>)

Archives ==
    {Archive(c) : c \in SeqsUpTo(Containers, MaxChunks)}
        \cup {NoFile, TwoMetadataArchive}

\* ------------------------------------------------------- message handlers

\* The DataSet as one record.
DataSet ==
    [descriptors |-> descriptors, metadata |-> metadata,
     timestamps |-> timestamps, raw_data |-> raw_data]

Running == update.kind # "panic"

\* The Message::OpenFile arm of the message pump: open_ftdc_file, then an
\* alert for an error and Update::DataSetLoaded for success, which unwraps
\* the first and the last timestamp.
open_file_update(out) ==
    IF out.status = "panic"
    THEN [Report("panic") EXCEPT !.cause = out.cause]
    ELSE IF out.status = "err"
    THEN [Report("alert") EXCEPT !.error = out.error]
    ELSE IF out.ds.timestamps = <<>>
    THEN [Report("panic") EXCEPT !.cause = "unwrap on None"]
    ELSE [Report("DataSetLoaded") EXCEPT
            !.start = out.ds.timestamps[1],
            !.end = out.ds.timestamps[Len(out.ds.timestamps)],
            !.transients = out.ds.descriptors.transients]

open_file(files) ==
    /\ Running
    /\ \E file \in files :
        \E out \in open_ftdc_file(DataSet, file, overflow_checks) :
            /\ descriptors' = out.ds.descriptors
            /\ metadata' = out.ds.metadata
            /\ timestamps' = out.ds.timestamps
            /\ raw_data' = out.ds.raw_data
            /\ update' = open_file_update(out)
            /\ opened' = IF file.exists THEN file ELSE opened
    /\ UNCHANGED <<overflow_checks, rx, state, block, decoder, replay>>

OpenFile == open_file(Archives)

Init ==
    /\ overflow_checks \in BOOLEAN
    /\ NewDataSet
    /\ block = <<>>
    /\ decoder = NewDecoder
    /\ replay = <<>>
    /\ NewMainWindow

Next == OpenFile

Spec == Init /\ [][Next]_vars

\* ----------------------------------------------- claims about the store

\* The data containers of `chunks` that open_ftdc_file appends: those read
\* before the first container that fails. Each comes with its block.
RECURSIVE Appended(_, _, _)
Appended(chunks, i, checks) ==
    IF i > Len(chunks) \/ chunk_of[chunks[i]][checks].status # "ok" THEN <<>>
    ELSE IF chunks[i].type = 0 THEN Appended(chunks, i + 1, checks)
    ELSE <<[block |-> chunks[i].data, chunk |-> chunk_of[chunks[i]][checks]]>>
            \o Appended(chunks, i + 1, checks)

AppendedNow == Appended(opened.chunks, 1, overflow_checks)

\* The number of timestamps of the first n blocks of a list.
RECURSIVE Offset(_, _)
Offset(blocks, n) ==
    IF n = 0 THEN 0
    ELSE Offset(blocks, n - 1) + Len(blocks[n].chunk.timestamps)

Slice(column, from, n) == [i \in 1..n |-> column[from + i]]

\* C1: in every state that open-archive calls lead to, whether they succeed
\* or are aborted by an error, every column of the store has exactly as
\* many entries as the timestamp vector.
C1_ColumnsAligned ==
    \A key \in DOMAIN raw_data : Len(raw_data[key]) = Len(timestamps)

\* An open-archive was aborted by an error after a block had been appended.
C1_Witness ==
    /\ update.kind = "alert"
    /\ Len(timestamps) = 2
    /\ DOMAIN raw_data = {<<"start">>, <<"a">>}

\* C2: for every key of the store and every appended block, the part of the
\* key's column that belongs to the block's timestamps holds the block's
\* values of the key when the block has the key, and only NaN when it has
\* not: before the key first appears as well as after it has disappeared.
C2_PaddedBothWays ==
    LET blocks == AppendedNow IN
    \A key \in DOMAIN raw_data : \A j \in 1..Len(blocks) :
        LET n == Len(blocks[j].chunk.timestamps)
            from == Offset(blocks, j - 1)
        IN  /\ Len(raw_data[key]) >= from + n
            /\ Slice(raw_data[key], from, n) =
                    IF key \in DOMAIN blocks[j].chunk.metrics
                    THEN floats(blocks[j].chunk.metrics[key])
                    ELSE nans(n)

\* Two blocks were appended, the first with key a and without b, the second
\* with b and without a: a is padded forward, b backward.
C2_Witness ==
    /\ update.kind = "DataSetLoaded"
    /\ DOMAIN raw_data = {<<"start">>, <<"a">>, <<"b">>}
    /\ raw_data[<<"a">>] = floats(<<1, 2>>) \o nans(2)
    /\ raw_data[<<"b">>] = nans(2) \o floats(<<2, 1>>)

\* C3: every block that decodes successfully with delta_count d in its
\* header has d + 1 entries in every column and d + 1 timestamps, and each
\* append makes the timestamp vector of the store longer by d + 1.
RECURSIVE SamplesPerBlock(_, _)
SamplesPerBlock(blocks, n) ==
    IF n = 0 THEN 0
    ELSE SamplesPerBlock(blocks, n - 1) + blocks[n].block.num_deltas + 1

C3_BlockLength ==
    LET blocks == AppendedNow IN
    /\ \A j \in 1..Len(blocks) :
          /\ Len(blocks[j].chunk.timestamps) = blocks[j].block.num_deltas + 1
          /\ \A key \in DOMAIN blocks[j].chunk.metrics :
                Len(blocks[j].chunk.metrics[key]) =
                    blocks[j].block.num_deltas + 1
    /\ Len(timestamps) = SamplesPerBlock(blocks, Len(blocks))
    /\ \A j \in 1..Len(blocks) :
          Slice(timestamps, Offset(blocks, j - 1),
                blocks[j].block.num_deltas + 1) = blocks[j].chunk.timestamps

\* A block with delta_count 2 was appended after a block with delta_count 1.
C3_Witness ==
    /\ update.kind = "DataSetLoaded"
    /\ Len(AppendedNow) = 2
    /\ AppendedNow[1].block.num_deltas = 1
    /\ AppendedNow[2].block.num_deltas = 2
    /\ Len(timestamps) = 5

\* ------------------------------------------------- the same run, twice

\* A second DataSet that is given every file the first one is given. Each
\* of the two reads the file on its own, so the HashMaps of the two runs
\* iterate in orders that are independent of each other.
InitReplay ==
    /\ overflow_checks \in BOOLEAN
    /\ NewDataSet
    /\ block = <<>>
    /\ decoder = NewDecoder
    /\ replay = [ds |-> [descriptors |-> NewDescriptors, metadata |-> <<>>,
                         timestamps |-> <<>>, raw_data |-> <<>>],
                 update |-> Report("none")]
    /\ NewMainWindow

\* Message::OpenFile handled by both, as long as they are in the same state.
OpenFileTwice ==
    /\ Running
    /\ replay.ds = DataSet
    /\ \E file \in Archives :
        \E out \in open_ftdc_file(DataSet, file, overflow_checks) :
        \E again \in open_ftdc_file(replay.ds, file, overflow_checks) :
            /\ descriptors' = out.ds.descriptors
            /\ metadata' = out.ds.metadata
            /\ timestamps' = out.ds.timestamps
            /\ raw_data' = out.ds.raw_data
            /\ update' = open_file_update(out)
            /\ opened' = IF file.exists THEN file ELSE opened
            /\ replay' = [ds |-> again.ds, update |-> open_file_update(again)]
    /\ UNCHANGED <<overflow_checks, rx, state, block, decoder>>

NextReplay == OpenFileTwice

SpecReplay == InitReplay /\ [][NextReplay]_vars

\* C9: decoding and ingesting the same blocks twice from the same state
\* gives the same result both times: the same timestamps and values for
\* every key, and the same descriptor id for every key that gets a
\* descriptor of its own.
C9_SameResultTwice ==
    /\ replay.ds.timestamps = timestamps
    /\ replay.ds.raw_data = raw_data
    /\ replay.ds.descriptors = descriptors
    /\ replay.update = update

\* ------------------------------------------------------------ the sampler

\* `a - b` on usize: faults under overflow checks, wraps without.
sub_usize(a, b, checks) ==
    IF a < b
    THEN [fault |-> checks, value |-> (a - b) % WordMod]
    ELSE [fault |-> FALSE, value |-> a - b]

Sorted(ts) == \A i \in 1..(Len(ts) - 1) : ts[i] <= ts[i + 1]

\* slice::binary_search, by its contract. On a sorted slice: Ok(i) for any
\* one i that holds x, else Err(i) with i the place where x would go. On a
\* slice that is not sorted the result is unspecified: it may be Ok(i) for
\* an i that holds x, or Err(i) for any place i. Indices count from 0.
binary_search(ts, x) ==
    LET found == {[ok |-> TRUE, idx |-> i - 1] :
                        i \in {j \in 1..Len(ts) : ts[j] = x}}
    IN  IF Sorted(ts)
        THEN IF found # {} THEN found
             ELSE {[ok |-> FALSE,
                    idx |-> Cardinality({j \in 1..Len(ts) : ts[j] < x})]}
        ELSE found \cup {[ok |-> FALSE, idx |-> i] : i \in 0..Len(ts)}

\* One returned point: the instant, and the raw value with the scale it is
\* divided by.
Point(t, value, scale) == [t |-> t, v |-> value.v, scale |-> scale]

SampleFault(cause) == [fault |-> TRUE, cause |-> cause, samples |-> <<>>]

\* (start_idx..=end_idx) with no filter: a tail that keeps the NaN values.
tail_samples_unfiltered(ds, values, scale, start_idx, end_idx) ==
    IF start_idx > end_idx
    THEN [fault |-> FALSE, cause |-> "", samples |-> <<>>]
    ELSE IF end_idx >= Len(values) \/ end_idx >= Len(ds.timestamps)
    THEN SampleFault("index out of bounds")
    ELSE [fault |-> FALSE, cause |-> "",
          samples |-> [k \in 1..(end_idx - start_idx + 1) |->
                          Point(ds.timestamps[start_idx + k],
                                values[start_idx + k], scale)]]

\* (start_idx..=end_idx) filtered for values that are not NaN.
tail_samples(ds, values, scale, start_idx, end_idx) ==
    IF start_idx > end_idx
    THEN [fault |-> FALSE, cause |-> "", samples |-> <<>>]
    ELSE IF end_idx >= Len(values) \/ end_idx >= Len(ds.timestamps)
    THEN SampleFault("index out of bounds")
    ELSE LET kept == {i \in start_idx..end_idx : ~values[i + 1].nan}
             nth(k) == CHOOSE i \in kept :
                            Cardinality({j \in kept : j < i}) = k - 1
         IN  [fault |-> FALSE, cause |-> "",
              samples |-> [k \in 1..Cardinality(kept) |->
                              Point(ds.timestamps[nth(k) + 1],
                                    values[nth(k) + 1], scale)]]

\* The while loop of sample_metrics and the tail after it.
RECURSIVE stride_samples(_, _, _, _, _, _, _, _, _, _)
stride_samples(ds, values, scale, start_idx, end_idx, num_samples, delta, sample_time, samples, checks) ==
    LET left == sub_usize(end_idx, start_idx, checks) IN
    IF left.fault THEN SampleFault("subtract overflow")
    ELSE IF left.value >= num_samples THEN
        IF start_idx >= Len(ds.timestamps)
        THEN SampleFault("index out of bounds")
        ELSE LET start_time == ds.timestamps[start_idx + 1] IN
            IF start_time >= sample_time
            THEN IF start_idx >= Len(values)
                 THEN SampleFault("index out of bounds")
                 ELSE stride_samples(ds, values, scale, start_idx + 1,
                        end_idx, num_samples, delta, sample_time + delta,
                        IF values[start_idx + 1].nan THEN samples
                        ELSE Append(samples,
                                    Point(start_time, values[start_idx + 1],
                                          scale)),
                        checks)
            ELSE stride_samples(ds, values, scale, start_idx + 1, end_idx,
                                num_samples, delta, sample_time, samples,
                                checks)
    ELSE LET tail == tail_samples(ds, values, scale, start_idx, end_idx) IN
         [tail EXCEPT !.samples = samples \o @]

\* The body of the loop over the ids for a descriptor whose key has a
\* column, given what the two binary searches returned.
sample_column(ds, desc, lo, hi, num_samples, from, to, checks) ==
    LET end_idx == IF to.ok THEN [fault |-> FALSE, value |-> to.idx]
                   ELSE sub_usize(to.idx, 1, checks)
    IN  IF end_idx.fault THEN SampleFault("subtract overflow")
        ELSE IF num_samples = 0 THEN SampleFault("divide by zero")
        ELSE stride_samples(ds, ds.raw_data[desc.key], desc.scale, from.idx,
                            end_idx.value, num_samples,
                            Quot(hi - lo, num_samples), lo, <<>>, checks)

\* What the two binary searches of one request can return. The search is a
\* function: the same slice and the same instant give the same result both
\* times, and for every id of the request.
searches(ts, lo, hi) ==
    UNION {{[from |-> from, to |-> to] :
                to \in IF hi = lo THEN {from} ELSE binary_search(ts, hi)} :
           from \in binary_search(ts, lo)}

\* The loop body with the column looked up for auto-created descriptors
\* only: a descriptor of a catalog finds no column.
sample_id_transients_only(ds, id, lo, hi, num_samples, found, checks) ==
    IF id >= Len(ds.descriptors.by_id)
    THEN SampleFault("index out of bounds")
    ELSE LET desc == ds.descriptors.by_id[id + 1] IN
        IF \/ desc.key \notin DOMAIN ds.raw_data
           \/ \A i \in DOMAIN ds.descriptors.transients :
                ds.descriptors.transients[i] # desc
        THEN [fault |-> FALSE, cause |-> "", samples |-> <<>>]
        ELSE sample_column(ds, desc, lo, hi, num_samples, found.from,
                           found.to, checks)

\* The body of the loop over the ids: the series of one id.
sample_id(ds, id, lo, hi, num_samples, found, checks) ==
    IF id >= Len(ds.descriptors.by_id)
    THEN SampleFault("index out of bounds")
    ELSE LET desc == ds.descriptors.by_id[id + 1] IN
        IF desc.key \notin DOMAIN ds.raw_data
        THEN [fault |-> FALSE, cause |-> "", samples |-> <<>>]
        ELSE sample_column(ds, desc, lo, hi, num_samples, found.from,
                           found.to, checks)

\* DataSet::sample_metrics from the i-th id on: the map from id to series,
\* or a fault.
RECURSIVE sample_ids(_, _, _, _, _, _, _, _, _)
sample_ids(ds, ids, i, lo, hi, num_samples, found, checks, result) ==
    IF i > Len(ids) THEN [fault |-> FALSE, cause |-> "", samples |-> result]
    ELSE LET series == sample_id(ds, ids[i], lo, hi, num_samples, found,
                                 checks)
         IN  IF series.fault THEN series
             ELSE sample_ids(ds, ids, i + 1, lo, hi, num_samples, found,
                             checks,
                             [id \in DOMAIN result \cup {ids[i]} |->
                                 IF id = ids[i] THEN series.samples
                                 ELSE result[id]])

\* DataSet::sample_metrics: the set of its outcomes, one for each result
\* of the binary searches.
sample_metrics(ds, ids, lo, hi, num_samples, checks) ==
    {sample_ids(ds, ids, 1, lo, hi, num_samples, found, checks, <<>>) :
        found \in searches(ds.timestamps, lo, hi)}

\* ------------------------------------------- the SampleMetrics message

MaxTime == 3

MaxSamples == 2

\* Archives of one block that decodes, the archive with no container, one
\* of two blocks with different keys, which pads both columns with NaN,
\* and the one of GapBlocks.
SampleArchives ==
    {Archive(<<DataContainer(b)>>) : b \in SampleBlocks}
    \cup {Archive(<<>>),
          Archive(<<DataContainer(Block(Doc(<<Start(0), MetricA>>), 2, 1,
                                        <<1, 1>>)),
                    DataContainer(Block(Doc(<<Start(2), MetricB>>), 2, 1,
                                        <<1, U64_MAX>>))>>),
          Archive([i \in DOMAIN GapBlocks |-> DataContainer(GapBlocks[i])])}

\* Message::SampleMetrics(ids, range, num_samples), the range not empty.
SampleIds == {<<0>>, <<1, 0>>, <<3>>}

Requests ==
    {r \in [ids : SampleIds, lo : 0..MaxTime, hi : 0..MaxTime,
            num_samples : 0..MaxSamples] : r.lo <= r.hi}

\* The Message::SampleMetrics arm of the message pump:
\* Update::MetricsSampled with what sample_metrics returns. The report
\* keeps the request that was handled, also when the handler panics.
sample_metrics_update(request, out) ==
    IF out.fault
    THEN [Report("panic") EXCEPT !.cause = out.cause, !.request = request]
    ELSE [Report("MetricsSampled") EXCEPT !.request = request,
                                          !.samples = out.samples]

SampleMetrics ==
    /\ Running
    /\ \E request \in Requests :
        \E out \in sample_metrics(DataSet, request.ids, request.lo,
                                  request.hi, request.num_samples,
                                  overflow_checks) :
            update' = sample_metrics_update(request, out)
    /\ UNCHANGED <<overflow_checks, rx, state, descriptors, metadata,
                   timestamps, raw_data, opened, block, decoder, replay>>

OpenSampleFile == open_file(SampleArchives)

NextSample == OpenSampleFile \/ SampleMetrics

SpecSample == Init /\ [][NextSample]_vars

\* C10: every timestamp of every series that sample_metrics returns lies in
\* the requested window [lo, hi], and the timestamps of each series are
\* strictly increasing.
C10_SamplesInWindowAndRising ==
    update.kind = "MetricsSampled" =>
        \A id \in DOMAIN update.samples :
            LET series == update.samples[id] IN
            /\ \A k \in 1..Len(series) :
                    /\ update.request.lo <= series[k].t
                    /\ series[k].t <= update.request.hi
            /\ \A k \in 1..(Len(series) - 1) : series[k].t < series[k + 1].t


\* ------------------------------------------- claims about the sampler

\* The index bounds [start, end] that the binary searches `found` give.
StartIdx(found) == found.from.idx
EndIdx(found) ==
    IF found.to.ok THEN found.to.idx ELSE (found.to.idx - 1) % WordMod

\* `series` is the stored points of `column` at the indices idx[1] < idx[2]
\* < ... , all of them inside [from, to]: same instant, a value that is not
\* NaN, and that value over `scale`.
StoredAt(series, column, scale, idx, from, to) ==
    /\ \A k \in DOMAIN series :
        /\ from <= idx[k] /\ idx[k] <= to
        /\ idx[k] < Len(timestamps) /\ idx[k] < Len(column)
        /\ series[k].t = timestamps[idx[k] + 1]
        /\ ~column[idx[k] + 1].nan
        /\ series[k].v = column[idx[k] + 1].v
        /\ series[k].scale = scale
    /\ \A k \in 1..(Len(series) - 1) : idx[k] < idx[k + 1]

\* C11: every point returned for a descriptor id is a stored point: an
\* index inside the index bounds of the window holds its instant and a raw
\* value that is not NaN, the point's value is that raw value over the
\* descriptor's scale, and successive points come from strictly increasing
\* indices.
C11_PointsAreStoredPoints ==
    update.kind = "MetricsSampled" =>
        \E found \in searches(timestamps, update.request.lo,
                              update.request.hi) :
            \A id \in DOMAIN update.samples :
                LET series == update.samples[id]
                    desc == descriptors.by_id[id + 1]
                IN  series # <<>> =>
                    /\ desc.key \in DOMAIN raw_data
                    /\ \E idx \in [DOMAIN series -> 0..(Len(timestamps) - 1)] :
                        StoredAt(series, raw_data[desc.key], desc.scale, idx,
                                 StartIdx(found), EndIdx(found))

\* A series of two points or more from a column that holds a NaN inside
\* the index bounds, of which the sampler skipped at least one index.
C11_Witness ==
    /\ update.kind = "MetricsSampled"
    /\ \E id \in DOMAIN update.samples :
        LET column == raw_data[descriptors.by_id[id + 1].key] IN
        /\ Len(update.samples[id]) >= 2
        /\ Len(update.samples[id]) < Len(timestamps)
        /\ \E i \in DOMAIN column : column[i].nan


Rising(ts) == \A i \in 1..(Len(ts) - 1) : ts[i] < ts[i + 1]

\* The places of `column` whose instant is in [lo, hi] and whose value is
\* not NaN.
InWindow(column, lo, hi) ==
    {i \in DOMAIN column :
        /\ i <= Len(timestamps)
        /\ lo <= timestamps[i] /\ timestamps[i] <= hi
        /\ ~column[i].nan}

\* The first place of `places` at or after each of the n cursors lo,
\* lo + delta, ..., lo + (n - 1) * delta, with delta = (hi - lo) / n.
CursorPicks(places, lo, hi, n) ==
    LET delta == Quot(hi - lo, n)
        after(k) == {i \in places : timestamps[i] >= lo + k * delta}
    IN  {CHOOSE i \in after(k) : \A j \in after(k) : i <= j :
            k \in {c \in 0..(n - 1) : after(c) # {}}}

\* C12: on a store with rising timestamps, when the window holds more than
\* num_samples samples of a column, the series is the first sample at or
\* after each of the num_samples cursors and nothing else.
C12_OnePointPerCursor ==
    (update.kind = "MetricsSampled" /\ Rising(timestamps)) =>
        \A id \in DOMAIN update.samples :
            LET desc == descriptors.by_id[id + 1]
                req == update.request
                series == update.samples[id]
            IN  desc.key \in DOMAIN raw_data =>
                LET places == InWindow(raw_data[desc.key], req.lo, req.hi)
                    picks == CursorPicks(places, req.lo, req.hi,
                                         req.num_samples)
                IN  Cardinality(places) > req.num_samples =>
                    /\ Len(series) = Cardinality(picks)
                    /\ {series[k].t : k \in DOMAIN series}
                        = {timestamps[i] : i \in picks}


\* The index at which the loop of sample_metrics stops and the tail starts:
\* the first index from start on with fewer than n indices left before end.
SwitchIdx(found, n) ==
    IF sub_usize(EndIdx(found), StartIdx(found), FALSE).value < n
    THEN StartIdx(found)
    ELSE EndIdx(found) - n + 1

\* C13: for a request with num_samples >= 1, the series of an id has at most
\* num_samples + (end - i_switch) points, end the last index of the window
\* and i_switch the index where the tail starts.
C13_PointCountBound ==
    (update.kind = "MetricsSampled" /\ update.request.num_samples >= 1) =>
        \E found \in searches(timestamps, update.request.lo,
                              update.request.hi) :
            \A id \in DOMAIN update.samples :
                Len(update.samples[id]) <=
                    update.request.num_samples
                    + (EndIdx(found)
                       - SwitchIdx(found, update.request.num_samples))


\* C14: for an id with a column, the series is not empty exactly when some
\* stored sample of the column with its instant in the window is not NaN.
C14_NonEmptyIffSampleInWindow ==
    update.kind = "MetricsSampled" =>
        \A id \in DOMAIN update.samples :
            LET desc == descriptors.by_id[id + 1] IN
            desc.key \in DOMAIN raw_data =>
                (update.samples[id] # <<>>
                    <=> InWindow(raw_data[desc.key], update.request.lo,
                                 update.request.hi) # {})


\* The last message handled was a SampleMetrics request.
Sampled == update.request # <<>>

\* The id is not in the descriptor table, or its key has no column.
NoColumn(id) ==
    \/ id >= Len(descriptors.by_id)
    \/ descriptors.by_id[id + 1].key \notin DOMAIN raw_data

\* C15: a request whose ids are not registered in the descriptor table, or
\* whose keys have no column in the store, completes without a fault and
\* gives an empty series for each of them.
C15_UnknownIdsGiveEmptySeries ==
    LET ids == update.request.ids IN
    (Sampled /\ \A i \in DOMAIN ids : NoColumn(ids[i])) =>
        /\ update.kind = "MetricsSampled"
        /\ \A i \in DOMAIN ids :
            /\ ids[i] \in DOMAIN update.samples
            /\ update.samples[ids[i]] = <<>>


\* C16: a request for registered ids and num_samples >= 1 whose window
\* holds no stored timestamp completes without a fault and gives an empty
\* series for each id.
C16_EmptyWindowGivesEmptySeries ==
    LET req == update.request IN
    (/\ Sampled
     /\ req.num_samples >= 1
     /\ \A i \in DOMAIN req.ids : req.ids[i] < Len(descriptors.by_id)
     /\ \A i \in DOMAIN timestamps :
            timestamps[i] < req.lo \/ timestamps[i] > req.hi) =>
        /\ update.kind = "MetricsSampled"
        /\ \A i \in DOMAIN req.ids :
            /\ req.ids[i] \in DOMAIN update.samples
            /\ update.samples[req.ids[i]] = <<>>


\* ------------------------------------------- archives that end anywhere

MaxRest == 4

\* Two blocks with different keys, a block whose stream ends early, a
\* metadata container, a container of unknown type and the damaged ones.
ReadContainers ==
    {DataContainer(Block(Doc(<<Start(0), MetricA>>), 2, 1, <<1, 1>>)),
     DataContainer(Block(Doc(<<Start(2), MetricB>>), 2, 1, <<1, U64_MAX>>)),
     DataContainer(Block(Doc(<<Start(0), MetricA>>), 2, 1, <<1>>)),
     MetadataContainer(<<Fld("hostname", String("x"))>>),
     OtherContainer(2)}
    \cup {DamagedContainer(e) : e \in Damages}

\* Files that end at a container boundary or inside a container.
CutArchives ==
    {CutArchive(c, rest) : c \in SeqsUpTo(ReadContainers, MaxChunks),
                           rest \in 0..MaxRest}

OpenCutFile == open_file(CutArchives)

NextRead == OpenCutFile

SpecRead == Init /\ [][NextRead]_vars

\* ------------------------------------------- claims about the reader

\* A message has been handled, and open_ftdc_file returned Ok(()): the
\* handler then reports the loaded data set, or faults on an empty store.
Opened == update.kind # "none"
OpenedOk ==
    \/ update.kind = "DataSetLoaded"
    \/ update.kind = "panic" /\ update.cause = "unwrap on None"

\* Every whole container of the opened file reads without error or fault.
AllRead ==
    \A i \in DOMAIN opened.chunks :
        chunk_of[opened.chunks[i]][overflow_checks].status = "ok"

\* The store holds the blocks of `blocks`, in that order, and nothing else.
Holds(blocks) ==
    /\ Len(timestamps) = Offset(blocks, Len(blocks))
    /\ DOMAIN raw_data =
        UNION {DOMAIN blocks[j].chunk.metrics : j \in DOMAIN blocks}
    /\ \A j \in DOMAIN blocks :
        LET n == Len(blocks[j].chunk.timestamps)
            from == Offset(blocks, j - 1)
        IN  /\ Slice(timestamps, from, n) = blocks[j].chunk.timestamps
            /\ \A key \in DOMAIN blocks[j].chunk.metrics :
                /\ Len(raw_data[key]) >= from + n
                /\ Slice(raw_data[key], from, n)
                    = floats(blocks[j].chunk.metrics[key])

\* The data containers of the opened file, whether they read or not.
DataOf(chunks) == SelectSeq(chunks, LAMBDA c : c.type = 1)

\* C17: when the file ends at a container boundary and every container
\* reads, open-archive returns success and the store holds every data
\* block of the file, in the order of the file.
C17_BoundaryEndIsSuccess ==
    (Opened /\ opened.rest = 0 /\ AllRead) =>
        /\ OpenedOk
        /\ Len(AppendedNow) = Len(DataOf(opened.chunks))
        /\ \A j \in DOMAIN AppendedNow :
            AppendedNow[j].block = DataOf(opened.chunks)[j].data
        /\ Holds(AppendedNow)

\* A file of two data blocks with different keys that ends at a container
\* boundary has been opened.
C17_Witness ==
    /\ update.kind = "DataSetLoaded"
    /\ opened.rest = 0
    /\ Len(opened.chunks) = 2
    /\ Len(timestamps) = 4
    /\ timestamps[1] = 2
    /\ DOMAIN raw_data = {<<"start">>, <<"a">>, <<"b">>}


\* C18: when the file ends inside a container, after its first byte and
\* before its last, in the length prefix or in the body, and the containers
\* before it read, open-archive returns an error and not success.
C18_CutContainerIsError ==
    (Opened /\ opened.rest > 0 /\ AllRead) =>
        /\ update.kind = "alert"
        /\ update.error \in {"IO", "BSON", "InvalidDocumentFormat"}

\* C19: when open-archive returns an error, the store holds the blocks of
\* the data containers before the one that failed, in order, and nothing
\* else: nothing of the failing container and nothing older.
C19_ErrorKeepsWholeBlocks ==
    update.kind = "alert" => Holds(AppendedNow)

\* The second container of a file failed after decoding part of its
\* columns, behind a data block that was appended, and the file was opened
\* on a store that held other data before.
C19_Witness ==
    /\ update.kind = "alert"
    /\ Len(opened.chunks) = 2
    /\ opened.chunks[2] =
            DataContainer(Block(Doc(<<Start(0), MetricA>>), 2, 1, <<1>>))
    /\ Len(AppendedNow) = 1
    /\ timestamps = <<2, 3>>
    /\ \E i \in DOMAIN descriptors.by_id : descriptors.by_id[i].key = <<"a">>


\* ------------------------------------------------ the descriptor catalog

\* A descriptor object of the catalog as serde builds it: the id is skipped
\* and starts as 0, a missing scale is 1.
CatalogEntry(key, name, scale) ==
    [id |-> 0, key |-> key, name |-> name, scale |-> scale]

\* Descriptors::begin_section
begin_section(descs, name) ==
    [descs EXCEPT !.sections = Append(@, [name |-> name, metrics |-> <<>>])]

\* SectionBuilder::add
section_add(descs, idx, desc) ==
    [descs EXCEPT !.by_id = Append(@, add_descriptor(descs, desc)),
                  !.sections[idx].metrics =
                        Append(@, add_descriptor(descs, desc))]

\* SeqVisitor::visit_seq from the i-th descriptor of a section on.
RECURSIVE visit_seq(_, _, _, _)
visit_seq(descs, idx, entries, i) ==
    IF i > Len(entries) THEN descs
    ELSE visit_seq(section_add(descs, idx, entries[i]), idx, entries, i + 1)

\* MapVisitor::visit_map from the i-th section of the catalog on.
RECURSIVE visit_map(_, _, _)
visit_map(descs, sections, i) ==
    IF i > Len(sections) THEN descs
    ELSE visit_map(
            visit_seq(begin_section(descs, sections[i].name),
                      Len(descs.sections) + 1, sections[i].metrics, 1),
            sections, i + 1)

\* Deserialize for Descriptors
deserialize(sections) == visit_map(NewDescriptors, sections, 1)

\* The errors of deserializing the descriptor objects of a catalog: an
\* object without the field name (the field has no serde default), and a
\* key without segments (KeyVisitor::visit_seq, "key cannot be empty").
deserialize_error(sections) ==
    \E s \in DOMAIN sections : \E e \in DOMAIN sections[s].metrics :
        \/ "name" \notin DOMAIN sections[s].metrics[e]
        \/ sections[s].metrics[e].key = <<>>

\* A catalog file: whether it can be opened, whether it parses, and its
\* sections in the order of the file.
Catalog(sections) == [exists |-> TRUE, parses |-> TRUE, sections |-> sections]
BadCatalog == [exists |-> TRUE, parses |-> FALSE, sections |-> <<>>]
NoCatalog == [exists |-> FALSE, parses |-> FALSE, sections |-> <<>>]

\* The loop of load_descriptors over raw_data.keys(), in one of its orders,
\* from the i-th key without a descriptor on.
RECURSIVE add_missing(_, _, _)
add_missing(descs, order, i) ==
    IF i > Len(order) THEN descs
    ELSE add_missing(add(descs, default_for_key(order[i])), order, i + 1)

\* load_descriptors with the descriptors of the file kept as they are: the
\* keys of the store get no default descriptor.
load_descriptors_catalog_only(ds, file) ==
    IF ~file.exists \/ ~file.parses \/ deserialize_error(file.sections)
    THEN {[status |-> "err", error |-> "IO", ds |-> ds]}
    ELSE {[status |-> "ok", error |-> "",
           ds |-> [ds EXCEPT !.descriptors = deserialize(file.sections)]]}

\* load_descriptors that parses into the table of the DataSet itself: a
\* file that fails leaves the table empty.
load_descriptors_in_place(ds, file) ==
    IF ~file.exists \/ ~file.parses \/ deserialize_error(file.sections)
    THEN {[status |-> "err", error |-> "IO",
           ds |-> [ds EXCEPT !.descriptors = NewDescriptors]]}
    ELSE LET loaded == deserialize(file.sections)
             missing == {key \in DOMAIN ds.raw_data :
                            ~contains_key(loaded, key)}
         IN  {[status |-> "ok", error |-> "",
               ds |-> [ds EXCEPT !.descriptors =
                                    add_missing(loaded, order, 1)]] :
                order \in Orders(missing)}

\* DataSet::load_descriptors: the set of its outcomes, one for each
\* iteration order of raw_data. An error leaves the DataSet as it was.
\* The table is assigned after serde_json::from_reader has returned Ok.
load_descriptors(ds, file) ==
    IF ~file.exists \/ ~file.parses \/ deserialize_error(file.sections)
    THEN {[status |-> "err", error |-> "IO", ds |-> ds]}
    ELSE LET loaded == deserialize(file.sections)
             missing == {key \in DOMAIN ds.raw_data :
                            ~contains_key(loaded, key)}
         IN  {[status |-> "ok", error |-> "",
               ds |-> [ds EXCEPT !.descriptors =
                                    add_missing(loaded, order, 1)]] :
                order \in Orders(missing)}


\* The Message::LoadDescriptors arm of the message pump: an alert for an
\* error, Update::DescriptorsLoaded for success. The report keeps the file
\* that was asked for.
load_descriptors_update(file, out) ==
    IF out.status = "err"
    THEN [Report("alert") EXCEPT !.error = out.error, !.request = file]
    ELSE [Report("DescriptorsLoaded") EXCEPT
            !.sections = out.ds.descriptors.sections,
            !.transients = out.ds.descriptors.transients,
            !.request = file]

KeyUser == <<"sys", "cpu", "user">>
KeyIdle == <<"sys", "cpu", "idle">>
KeyRx == <<"sys", "net", "rx">>

\* The catalog with section CPU for sys.cpu.user and sys.cpu.idle.
CpuCatalog ==
    Catalog(<<[name |-> "CPU",
               metrics |-> <<CatalogEntry(KeyUser, "user", 1),
                             CatalogEntry(KeyIdle, "idle", 2)>>]>>)

\* A catalog whose second descriptor has a key without segments, and one
\* whose second descriptor has no name.
EmptyKeyCatalog ==
    Catalog(<<[name |-> "CPU",
               metrics |-> <<CatalogEntry(KeyUser, "user", 1),
                             CatalogEntry(<<>>, "idle", 2)>>]>>)
NoNameCatalog ==
    Catalog(<<[name |-> "CPU",
               metrics |-> <<CatalogEntry(KeyUser, "user", 1),
                             [id |-> 0, key |-> KeyIdle, scale |-> 2]>>]>>)

\* Catalog files: the CPU catalog, one with two sections that covers start
\* and a key no block has, an empty one, one that does not parse, one
\* that cannot be opened, and the two with a descriptor serde rejects.
Catalogs ==
    {CpuCatalog,
     Catalog(<<[name |-> "Time",
                metrics |-> <<CatalogEntry(StartKey, "time", 1)>>],
               [name |-> "Other",
                metrics |-> <<CatalogEntry(<<"k">>, "k", 2)>>]>>),
     Catalog(<<>>), BadCatalog, NoCatalog, EmptyKeyCatalog, NoNameCatalog}

LoadDescriptors ==
    /\ Running
    /\ \E file \in Catalogs :
        \E out \in load_descriptors(DataSet, file) :
            /\ descriptors' = out.ds.descriptors
            /\ update' = load_descriptors_update(file, out)
    /\ UNCHANGED <<overflow_checks, rx, state, metadata, timestamps,
                   raw_data, opened, block, decoder, replay>>

\* Archives of the block with the sys paths, and of a block without them.
CatalogArchives ==
    {Archive(<<DataContainer(SysBlock)>>),
     Archive(<<DataContainer(Block(Doc(<<Start(0), MetricA>>), 2, 1,
                                   <<1, 1>>))>>)}

OpenCatalogArchive == open_file(CatalogArchives)

NextCatalog == OpenCatalogArchive \/ LoadDescriptors

SpecCatalog == Init /\ [][NextCatalog]_vars

\* ------------------------------------------- claims about the catalog

\* The CPU catalog has been loaded over a store that holds the sys paths
\* and the timestamp column start.
CpuCatalogLoaded ==
    /\ update.kind = "DescriptorsLoaded"
    /\ update.request = CpuCatalog
    /\ DOMAIN raw_data = {StartKey, KeyUser, KeyIdle, KeyRx}

\* Section CPU lists the descriptors of sys.cpu.user and sys.cpu.idle, in
\* the order of the catalog.
CpuSection ==
    /\ Len(descriptors.sections) = 1
    /\ descriptors.sections[1].name = "CPU"
    /\ Len(descriptors.sections[1].metrics) = 2
    /\ descriptors.sections[1].metrics[1] = descriptors.by_id[1]
    /\ descriptors.sections[1].metrics[2] = descriptors.by_id[2]
    /\ descriptors.by_id[1].key = KeyUser /\ descriptors.by_id[1].scale = 1
    /\ descriptors.by_id[2].key = KeyIdle /\ descriptors.by_id[2].scale = 2
    /\ update.sections = descriptors.sections

\* C20 as stated: after open-archive on blocks with sys.cpu.user,
\* sys.cpu.idle and sys.net.rx and load-catalog of the CPU catalog, section
\* CPU lists the two descriptors in declared order and the transients list
\* holds exactly one descriptor, the one of sys.net.rx.
C20_OneTransient ==
    CpuCatalogLoaded =>
        /\ CpuSection
        /\ Len(descriptors.transients) = 1
        /\ descriptors.transients[1].key = KeyRx

\* C20, amended: after open-archive on blocks with sys.cpu.user,
\* sys.cpu.idle and sys.net.rx and load-catalog of the CPU catalog, section
\* CPU lists the two descriptors in declared order and the transients list
\* holds exactly one descriptor for each key of the store that the catalog
\* does not cover: one for sys.net.rx and one for start, in either order.
C20_TransientsAreUncoveredKeys ==
    CpuCatalogLoaded =>
        /\ CpuSection
        /\ Len(descriptors.transients) = 2
        /\ {descriptors.transients[i].key : i \in 1..2} = {KeyRx, StartKey}
        /\ \A i \in 1..2 : descriptors.transients[i] = descriptors.by_id[2 + i]
        /\ update.transients = descriptors.transients

\* The CPU catalog was loaded over that store, and the loop over the keys
\* of the store came to start before sys.net.rx.
C20_Witness ==
    /\ CpuCatalogLoaded
    /\ Len(timestamps) = 1
    /\ descriptors.transients[1].key = StartKey


\* C21: after any sequence of open-archive and load-catalog, every key with
\* a column in the store has a descriptor in the table, and no two
\* descriptors of the transients list have the same key.
C21_OneTransientPerKey ==
    /\ \A key \in DOMAIN raw_data : contains_key(descriptors, key)
    /\ \A i, j \in DOMAIN descriptors.transients :
        descriptors.transients[i].key = descriptors.transients[j].key
            => i = j

\* An archive was opened after a catalog had been loaded over the keys of
\* an earlier archive: start is seen for the second time, with a transient
\* descriptor already there.
C21_Witness ==
    /\ update.kind = "DataSetLoaded"
    /\ Len(descriptors.sections) = 1
    /\ DOMAIN raw_data = {StartKey, KeyUser, KeyIdle, KeyRx}
    /\ {descriptors.transients[i].key : i \in DOMAIN descriptors.transients}
        = {StartKey, <<"a">>, KeyRx}


\* A load-catalog that failed: the alert for a catalog file.
LoadFailed == update.kind = "alert" /\ update.request \in Catalogs

\* C22: a load-catalog that fails (no file, a file that does not parse, a
\* descriptor with an empty key or without a name) leaves the timestamps,
\* the columns, the metadata and the whole descriptor table as they were.
C22_FailedLoadChangesNothing ==
    [][LoadFailed' =>
            UNCHANGED <<descriptors, metadata, timestamps, raw_data>>]_vars

\* The catalog whose second descriptor has no key segments failed on a store
\* that holds the sys block and the descriptors of the CPU catalog.
C22_Witness ==
    /\ LoadFailed
    /\ update.request = EmptyKeyCatalog
    /\ Len(descriptors.sections) = 1
    /\ KeyRx \in DOMAIN raw_data
    /\ Len(descriptors.transients) = 2


\* A store that has handled no message.
EmptyStore ==
    [descriptors |-> NewDescriptors, metadata |-> <<>>, timestamps |-> <<>>,
     raw_data |-> <<>>]

\* C23: after open-archive has read an archive, the timestamps, the columns
\* and the metadata are what that archive's containers give on an empty
\* store, whatever an earlier open-archive had loaded.
C23_OnlyLastArchive ==
    Opened =>
        \E out \in open_ftdc_file(EmptyStore, opened, overflow_checks) :
            /\ timestamps = out.ds.timestamps
            /\ raw_data = out.ds.raw_data
            /\ metadata = out.ds.metadata

\* An archive with one data block and no metadata was opened on a store
\* that had held a column of another key: its descriptor is still there.
C23_Witness ==
    /\ update.kind = "DataSetLoaded"
    /\ Len(opened.chunks) = 1
    /\ metadata = <<>>
    /\ DOMAIN raw_data = {StartKey, <<"a">>}
    /\ \E i \in DOMAIN descriptors.transients :
        descriptors.transients[i].key \notin DOMAIN raw_data


\* C24: open-archive for an archive without a data block (only metadata
\* containers, or no container at all) does not abort the process: the
\* handler ends with a report, not with a panic.
C24_EmptyArchiveNoFault ==
    (/\ Opened
     /\ \A i \in DOMAIN opened.chunks : opened.chunks[i].type = 0)
        => update.kind # "panic"


\* The metadata containers of a file, in the order of the file.
MetadataOf(chunks) == SelectSeq(chunks, LAMBDA c : c.type = 0)

\* C25: when the opened archive has metadata containers, the metadata kept
\* after a successful ingestion is the document of the first of them, also
\* when that document is empty.
C25_FirstMetadataKept ==
    (update.kind = "DataSetLoaded" /\ MetadataOf(opened.chunks) # <<>>)
        => metadata = MetadataOf(opened.chunks)[1].doc


\* ------------------------------- catalog, archives and samples together

\* Sample requests for the stores of CatalogArchives: ids of catalog and
\* auto-created descriptors, windows at, around and behind the samples.
LookupRequests ==
    {r \in [ids : {<<0>>, <<1, 2>>, <<3>>}, lo : {0, 1}, hi : {0, 1, MaxTime},
            num_samples : 0..MaxSamples] : r.lo <= r.hi}

SampleLookup ==
    /\ Running
    /\ \E request \in LookupRequests :
        \E out \in sample_metrics(DataSet, request.ids, request.lo,
                                  request.hi, request.num_samples,
                                  overflow_checks) :
            update' = sample_metrics_update(request, out)
    /\ UNCHANGED <<overflow_checks, rx, state, descriptors, metadata,
                   timestamps, raw_data, opened, block, decoder, replay>>

NextLookup == OpenCatalogArchive \/ LoadDescriptors \/ SampleLookup

SpecLookup == Init /\ [][NextLookup]_vars

\* The descriptor is listed in a section: it came from a catalog.
InSection(desc) ==
    \E s \in DOMAIN descriptors.sections :
        \E m \in DOMAIN descriptors.sections[s].metrics :
            descriptors.sections[s].metrics[m] = desc

\* The stored points of a column, the values that are not NaN, over scale.
StoredPoints(column, scale) ==
    LET kept == {i \in DOMAIN column : ~column[i].nan}
        nth(k) == CHOOSE i \in kept : Cardinality({j \in kept : j < i}) = k - 1
    IN  [k \in 1..Cardinality(kept) |->
            Point(timestamps[nth(k)], column[nth(k)], scale)]

\* The request asks for at least as many points as the store has instants,
\* in a window that holds them all.
WholeStore(req) ==
    /\ timestamps # <<>>
    /\ req.num_samples >= Len(timestamps)
    /\ \A i \in DOMAIN timestamps :
        req.lo <= timestamps[i] /\ timestamps[i] <= req.hi

\* C26: a key K that a catalog descriptor registers gets no transient
\* descriptor when an archive with K is opened, and sampling the catalog
\* descriptor's id over the whole store returns the stored samples of K's
\* column, over the catalog's scale.
C26_CatalogDescriptorResolves ==
    \A id \in 0..(Len(descriptors.by_id) - 1) :
        LET desc == descriptors.by_id[id + 1] IN
        InSection(desc) =>
            /\ \A i \in DOMAIN descriptors.transients :
                descriptors.transients[i].key # desc.key
            /\ (/\ update.kind = "MetricsSampled"
                /\ desc.key \in DOMAIN raw_data
                /\ WholeStore(update.request)
                /\ \E i \in DOMAIN update.request.ids :
                        update.request.ids[i] = id)
                => update.samples[id] = StoredPoints(raw_data[desc.key],
                                                     desc.scale)

\* The CPU catalog was loaded on the empty store, the sys block was opened
\* after it, and sys.cpu.idle was sampled by its catalog id.
C26_Witness ==
    /\ update.kind = "MetricsSampled"
    /\ update.request.ids = <<1, 2>>
    /\ Len(descriptors.sections) = 1
    /\ descriptors.sections[1].metrics[2] = descriptors.by_id[2]
    /\ descriptors.by_id[2].key = KeyIdle
    /\ Len(descriptors.transients) = 2
    /\ descriptors.transients[1].id = 2
    /\ update.samples[1] = <<[t |-> 0, v |-> 2, scale |-> 2]>>


\* The column of the key start among the decoder's columns, as finish()
\* looks it up.
StartColumn == to_hash_map(decoder.metrics)[StartKey]

\* C27: when finish() converts the column start of a block, every entry
\* becomes the instant of that many milliseconds since the epoch, negative
\* entries included: timestamps[i] read back in milliseconds is the i-th
\* entry of the column.
C27_MillisRoundTrip ==
    [][(/\ decoder.pc = "finish"
        /\ StartKey \in DOMAIN to_hash_map(decoder.metrics))
            => /\ decoder'.status = "ok"
               /\ decoder'.timestamps = StartColumn]_vars


\* The stored points of a column whose instant lies in [lo, hi], the values
\* that are not NaN, over scale, in the order of the store.
WindowPoints(column, scale, lo, hi) ==
    LET kept == {i \in DOMAIN column :
                    /\ ~column[i].nan
                    /\ lo <= timestamps[i] /\ timestamps[i] <= hi}
        nth(k) == CHOOSE i \in kept : Cardinality({j \in kept : j < i}) = k - 1
    IN  [k \in 1..Cardinality(kept) |->
            Point(timestamps[nth(k)], column[nth(k)], scale)]

\* With a stride of zero every stored point of the window is returned.
ZeroStrideGivesWindow ==
    LET req == update.request IN
    (/\ update.kind = "MetricsSampled"
     /\ req.num_samples >= 1
     /\ req.hi - req.lo < req.num_samples)
        => \A id \in DOMAIN update.samples :
            ~NoColumn(id) =>
                update.samples[id] =
                    WindowPoints(raw_data[descriptors.by_id[id + 1].key],
                                 descriptors.by_id[id + 1].scale,
                                 req.lo, req.hi)

\* C28: when the stride (hi - lo) / num_samples is zero, sample_metrics
\* returns every stored point of the window that is not NaN, and no request
\* makes the sampler divide by zero.
C28_ZeroStrideNoDivideByZero ==
    Sampled =>
        /\ ~(update.kind = "panic" /\ update.cause = "divide by zero")
        /\ ZeroStrideGivesWindow


\* `old` is a prefix of `new`.
Prefix(old, new) ==
    /\ Len(old) <= Len(new)
    /\ \A i \in DOMAIN old : new[i] = old[i]

\* The step handles Message::OpenFile: its report names no request.
OpenStep == update'.request = <<>>

\* The last message handled was a SampleMetrics request for registered ids
\* whose keys have no column.
SampledWithoutColumn ==
    /\ update.kind \in {"MetricsSampled", "panic"}
    /\ update.request # <<>>
    /\ \A i \in DOMAIN update.request.ids :
        /\ update.request.ids[i] < Len(descriptors.by_id)
        /\ NoColumn(update.request.ids[i])

\* C29: open-archive never removes or renumbers a descriptor: the table
\* before the call is a prefix of the table after it, with the same
\* sections, and sampling a registered id whose key has no column returns
\* an empty series.
C29_OpenKeepsDescriptors ==
    /\ [][OpenStep =>
            /\ Prefix(descriptors.by_id, descriptors'.by_id)
            /\ Prefix(descriptors.transients, descriptors'.transients)
            /\ descriptors'.sections = descriptors.sections]_vars
    /\ [](SampledWithoutColumn =>
            /\ update.kind = "MetricsSampled"
            /\ \A i \in DOMAIN update.request.ids :
                update.samples[update.request.ids[i]] = <<>>)

\* After the archive with the key a, the sys block was opened: a's
\* descriptor keeps id 0 among five transients, and sampling it gave an
\* empty series.
C29_Witness ==
    /\ update.kind = "MetricsSampled"
    /\ update.request.ids = <<0>>
    /\ Len(descriptors.transients) = 5
    /\ descriptors.transients[1] = descriptors.by_id[1]
    /\ descriptors.by_id[1].key = <<"a">>
    /\ <<"a">> \notin DOMAIN raw_data
    /\ KeyRx \in DOMAIN raw_data
    /\ update.samples[0] = <<>>


\* ------------------------------------- the main window and the channel

\* The names of the descriptors in the order of str::cmp.
NameOrder ==
    <<"a", "idle", "k", "start", "sys cpu idle", "sys cpu user",
      "sys net rx", "time", "user">>

\* sort_by(|lhs, rhs| lhs.name.cmp(&rhs.name)): a stable sort by name.
sort_by_name(descs) ==
    LET rank(i) == CHOOSE r \in DOMAIN NameOrder : NameOrder[r] = descs[i].name
        before(i, j) == rank(i) < rank(j) \/ (rank(i) = rank(j) /\ i < j)
        at(k) == CHOOSE i \in DOMAIN descs :
                    Cardinality({j \in DOMAIN descs : before(j, i)}) = k - 1
    IN  [k \in DOMAIN descs |-> descs[at(k)]]

\* State::set_sections
set_sections(st, sections) ==
    [st EXCEPT !.sections_dirty = TRUE,
               !.sections = [i \in DOMAIN sections |->
                    [sections[i] EXCEPT !.metrics = sort_by_name(@)]]]

\* State::set_transients
set_transients(st, transients) ==
    [st EXCEPT !.transients = sort_by_name(transients)]

\* State::sample_range
sample_range(st) ==
    IF st.zoom_time_range # <<>> THEN st.zoom_time_range
    ELSE st.data_time_range

\* State::descriptors: the descriptors of the sections, then the transients.
RECURSIVE state_descriptors(_, _)
state_descriptors(st, i) ==
    IF i > Len(st.sections) THEN st.transients
    ELSE st.sections[i].metrics \o state_descriptors(st, i + 1)

\* chart.chart_width(), the number of points a request asks for.
chart_width == 2

\* The message request_metrics_sample sends. descs is not part of the
\* message: it records the descriptors the ids were taken from.
request_metrics_sample(st) ==
    LET descs == state_descriptors(st, 1) IN
    [msg |-> "SampleMetrics",
     ids |-> [i \in DOMAIN descs |-> descs[i].id],
     lo |-> sample_range(st).start, hi |-> sample_range(st).end,
     num_samples |-> chart_width, descs |-> descs]

Max(a, b) == IF a >= b THEN a ELSE b

\* MainWindow::update for Update::DataSetLoaded, before the request is sent.
update_data_set_loaded(st, report) ==
    LET loaded == [set_transients(st, report.transients) EXCEPT
                    !.data_time_range =
                        [start |-> report.start, end |-> report.end],
                    !.set_zoom_button = TRUE]
    IN  IF st.zoom_time_range = <<>> THEN loaded
        ELSE [loaded EXCEPT !.zoom_time_range =
                [start |-> Max(report.start, st.zoom_time_range.start),
                 end |-> Max(report.end, st.zoom_time_range.end)]]

\* MainWindow::update for Update::DescriptorsLoaded, before the request.
update_descriptors_loaded(st, report) ==
    set_transients(set_sections(st, report.sections), report.transients)


\* The most messages the channel holds when the user acts.
MaxQueue == 2

\* The files the user picks in the two file choosers.
QueueArchives == CatalogArchives
QueueCatalogs == {CpuCatalog, NoCatalog}

\* The state variables no user action and no handler of this part writes.
other_vars == <<overflow_checks, block, decoder, replay>>

\* MainWindow::on_open_file with a file chosen.
OnOpenFile ==
    /\ Running /\ Len(rx) < MaxQueue
    /\ \E file \in QueueArchives :
        rx' = Append(rx, [msg |-> "OpenFile", file |-> file])
    /\ UNCHANGED <<other_vars, dataset_vars, state>>

\* MainWindow::on_load_descriptors with a file chosen.
OnLoadDescriptors ==
    /\ Running /\ Len(rx) < MaxQueue
    /\ \E file \in QueueCatalogs :
        rx' = Append(rx, [msg |-> "LoadDescriptors", file |-> file])
    /\ UNCHANGED <<other_vars, dataset_vars, state>>

\* MainWindow::on_set_zoom with inputs that parse_zoom accepts: two
\* instants inside data_time_range.
OnSetZoom ==
    /\ Running /\ Len(rx) < MaxQueue
    /\ state.set_zoom_button
    /\ \E start, end \in state.data_time_range.start
                            ..state.data_time_range.end :
        LET zoom == [start |-> start, end |-> end]
            zoomed == [state EXCEPT
                        !.zoom_time_range = zoom,
                        !.reset_zoom_button = (state.data_time_range # zoom)]
        IN  /\ state' = zoomed
            /\ rx' = Append(rx, request_metrics_sample(zoomed))
    /\ UNCHANGED <<other_vars, dataset_vars>>

\* MainWindow::on_reset_zoom
OnResetZoom ==
    /\ Running /\ Len(rx) < MaxQueue
    /\ state.reset_zoom_button
    /\ LET reset == [state EXCEPT !.zoom_time_range = <<>>,
                                  !.reset_zoom_button = FALSE]
       IN  /\ state' = reset
           /\ rx' = Append(rx, request_metrics_sample(reset))
    /\ UNCHANGED <<other_vars, dataset_vars>>

\* The Message::OpenFile arm for the message at the head of the channel,
\* with MainWindow::update for Update::DataSetLoaded.
RecvOpenFile ==
    /\ Running /\ rx # <<>> /\ Head(rx).msg = "OpenFile"
    /\ \E out \in open_ftdc_file(DataSet, Head(rx).file, overflow_checks) :
        LET report == open_file_update(out)
            loaded == update_data_set_loaded(state, report)
        IN  /\ descriptors' = out.ds.descriptors
            /\ metadata' = out.ds.metadata
            /\ timestamps' = out.ds.timestamps
            /\ raw_data' = out.ds.raw_data
            /\ update' = report
            /\ opened' = IF Head(rx).file.exists THEN Head(rx).file
                         ELSE opened
            /\ IF report.kind = "DataSetLoaded"
               THEN /\ state' = loaded
                    /\ rx' = Append(Tail(rx), request_metrics_sample(loaded))
               ELSE /\ state' = state
                    /\ rx' = Tail(rx)
    /\ UNCHANGED other_vars

\* The Message::LoadDescriptors arm for the message at the head of the
\* channel, with MainWindow::update for Update::DescriptorsLoaded.
RecvLoadDescriptors ==
    /\ Running /\ rx # <<>> /\ Head(rx).msg = "LoadDescriptors"
    /\ \E out \in load_descriptors(DataSet, Head(rx).file) :
        LET report == load_descriptors_update(Head(rx).file, out)
            loaded == update_descriptors_loaded(state, report)
        IN  /\ descriptors' = out.ds.descriptors
            /\ update' = report
            /\ IF report.kind # "DescriptorsLoaded"
               THEN /\ state' = state
                    /\ rx' = Tail(rx)
               ELSE /\ state' = loaded
                    /\ rx' = IF loaded.data_time_range = <<>> THEN Tail(rx)
                             ELSE Append(Tail(rx),
                                         request_metrics_sample(loaded))
    /\ UNCHANGED <<other_vars, metadata, timestamps, raw_data, opened>>

\* The Message::SampleMetrics arm for the message at the head of the
\* channel, with MainWindow::update for Update::MetricsSampled.
RecvSampleMetrics ==
    /\ Running /\ rx # <<>> /\ Head(rx).msg = "SampleMetrics"
    /\ \E out \in sample_metrics(DataSet, Head(rx).ids, Head(rx).lo,
                                 Head(rx).hi, Head(rx).num_samples,
                                 overflow_checks) :
        /\ update' = sample_metrics_update(Head(rx), out)
        /\ state' = IF out.fault THEN state
                    ELSE [state EXCEPT !.sections_dirty = FALSE]
    /\ rx' = Tail(rx)
    /\ UNCHANGED <<other_vars, descriptors, metadata, timestamps, raw_data,
                   opened>>

NextQueue ==
    \/ OnOpenFile \/ OnLoadDescriptors \/ OnSetZoom \/ OnResetZoom
    \/ RecvOpenFile \/ RecvLoadDescriptors \/ RecvSampleMetrics

SpecQueue == Init /\ [][NextQueue]_vars

\* C30: whatever the user does while messages are pending, when a
\* SampleMetrics message is the next to be handled every id it carries is
\* an index into the descriptor table, and the descriptor there is the one
\* the main window took the id from.
C30_QueuedIdsValid ==
    (rx # <<>> /\ Head(rx).msg = "SampleMetrics") =>
        \A i \in DOMAIN Head(rx).ids :
            /\ Head(rx).ids[i] < Len(descriptors.by_id)
            /\ descriptors.by_id[Head(rx).ids[i] + 1] = Head(rx).descs[i]

====
